---------------------------- MODULE Spec2Model ----------------------------
(***************************************************************************)
(* Model of Src/portfolio_app.py: a Streamlit script that reads the        *)
(* sidebar inputs, downloads closing prices, annualises mean returns and   *)
(* the covariance matrix, samples random portfolios in a loop, selects the *)
(* max-Sharpe and min-volatility rows and renders a chart, a weights table *)
(* and three summary lines.                                                *)
(*                                                                         *)
(* Numbers.  A float is modelled as NaN, +inf, -inf or an exact real       *)
(* a*sqrt(r)/b in canonical form (b > 0, r square-free, gcd(|a|,b) = 1).   *)
(* The IEEE-754 special cases the script can meet are kept (0/0 = NaN,     *)
(* x/0 = +-inf, sqrt of a negative = NaN, every comparison with NaN is     *)
(* false, inf*0 = NaN).  Rounding of finite results and the sign of zero   *)
(* are not modelled; the rounding error of the covariance estimate is      *)
(* represented by a covariance matrix that is slightly indefinite.         *)
(***************************************************************************)
EXTENDS Integers, Sequences, FiniteSets, TLC

\* ------------------------------------------------------------------ bounds
\* random draws are d/(MaxDraw+1) for d in 0..MaxDraw: a grid on [0,1)
MaxDraw == 2
\* the slider range 1000..20000 scaled down to 1..MaxPortfolios
MaxPortfolios == 2

\* ------------------------------------------------------- float arithmetic
NaN == [k |-> "nan", a |-> 0, r |-> 1, b |-> 1]

Inf(s) == [k |-> "inf", a |-> s, r |-> 1, b |-> 1]

Abs(x) == IF x < 0 THEN -x ELSE x

Sign(x) == IF x < 0 THEN -1 ELSE IF x > 0 THEN 1 ELSE 0

RECURSIVE GCD(_, _)
GCD(m, n) == IF n = 0 THEN m ELSE GCD(n, m % n)

\* the largest s (a multiple of squares of primes >= p) with s*s dividing n
RECURSIVE SqPart(_, _)
SqPart(n, p) ==
    IF p * p > n THEN 1
    ELSE IF n % (p * p) = 0 THEN p * SqPart(n \div (p * p), p)
    ELSE SqPart(n, p + 1)

\* the canonical form of a*sqrt(r)/b, for r square-free and b # 0
Canon(a, r, b) ==
    IF a = 0 THEN [k |-> "fin", a |-> 0, r |-> 1, b |-> 1]
    ELSE LET g == GCD(Abs(a), Abs(b))
         IN  [k |-> "fin", a |-> (a * Sign(b)) \div g, r |-> r, b |-> Abs(b) \div g]

Rat(p, q) == Canon(p, 1, q)

Zero == Rat(0, 1)

One == Rat(1, 1)

IsNaN(x) == x.k = "nan"

IsFinite(x) == x.k = "fin"

SignOf(x) == Sign(x.a)

Neg(x) == [x EXCEPT !.a = -x.a]

\* x + y; finite operands share their radical (the script only adds rationals)
Add(x, y) ==
    IF IsNaN(x) \/ IsNaN(y) THEN NaN
    ELSE IF x.k = "inf" /\ y.k = "inf" THEN (IF x.a = y.a THEN x ELSE NaN)
    ELSE IF x.k = "inf" THEN x
    ELSE IF y.k = "inf" THEN y
    ELSE IF x.a = 0 THEN y
    ELSE IF y.a = 0 THEN x
    ELSE LET g == GCD(x.b, y.b)
         IN  Canon(x.a * (y.b \div g) + y.a * (x.b \div g), x.r, (x.b \div g) * y.b)

Sub(x, y) == Add(x, Neg(y))

Mul(x, y) ==
    IF IsNaN(x) \/ IsNaN(y) THEN NaN
    ELSE IF x.k = "inf" \/ y.k = "inf"
         THEN (IF SignOf(x) * SignOf(y) = 0 THEN NaN ELSE Inf(SignOf(x) * SignOf(y)))
    ELSE IF x.a = 0 \/ y.a = 0 THEN Canon(0, 1, 1)
    ELSE LET g1 == GCD(Abs(x.a), y.b)
             g2 == GCD(Abs(y.a), x.b)
             gr == GCD(x.r, y.r)
         IN  Canon((x.a \div g1) * (y.a \div g2) * gr,
                  (x.r \div gr) * (y.r \div gr),
                  (x.b \div g2) * (y.b \div g1))

Div(x, y) ==
    IF IsNaN(x) \/ IsNaN(y) THEN NaN
    ELSE IF x.k = "inf" THEN (IF y.k = "inf" THEN NaN
                              ELSE Inf(IF SignOf(y) < 0 THEN -x.a ELSE x.a))
    ELSE IF y.k = "inf" THEN Zero
    ELSE IF y.a = 0 THEN (IF x.a = 0 THEN NaN ELSE Inf(SignOf(x)))
    ELSE Mul(x, Canon(y.b, y.r, y.a * y.r))

\* np.sqrt of a rational (or non-finite) value
Sqrt(x) ==
    IF IsNaN(x) THEN NaN
    ELSE IF x.k = "inf" THEN (IF x.a > 0 THEN x ELSE NaN)
    ELSE IF x.a < 0 THEN NaN
    ELSE IF x.a = 0 THEN x
    ELSE LET sa == SqPart(x.a, 2)
             sb == SqPart(x.b, 2)
         IN  Canon(sa, (x.a \div (sa * sa)) * (x.b \div (sb * sb)),
                  sb * (x.b \div (sb * sb)))

\* x < y on floats: false as soon as one side is NaN; two finite values of
\* the same sign are compared through the square of their quotient
LT(x, y) ==
    IF IsNaN(x) \/ IsNaN(y) THEN FALSE
    ELSE IF x.k = "inf" THEN x.a < 0 /\ ~(y.k = "inf" /\ y.a < 0)
    ELSE IF y.k = "inf" THEN y.a > 0
    ELSE IF SignOf(x) # SignOf(y) THEN SignOf(x) < SignOf(y)
    ELSE IF SignOf(x) = 0 THEN FALSE
    ELSE LET q == Div(x, y)
             below == q.a * q.a * q.r < q.b * q.b
             above == q.a * q.a * q.r > q.b * q.b
         IN  IF SignOf(x) > 0 THEN below ELSE above

GT(x, y) == LT(y, x)

GE(x, y) == ~IsNaN(x) /\ ~IsNaN(y) /\ ~LT(x, y)

LE(x, y) == GE(y, x)

RECURSIVE SumTo(_, _)
SumTo(s, i) == IF i = 0 THEN Zero ELSE Add(SumTo(s, i - 1), s[i])

\* np.sum
Sum(s) == SumTo(s, Len(s))

\* np.dot of two vectors of the same length
Dot(u, v) == Sum([i \in 1..Len(u) |-> Mul(u[i], v[i])])

\* np.dot of a matrix and a vector
MatVec(m, v) == [i \in 1..Len(m) |-> Dot(m[i], v)]


\* ------------------------------------------------------------ text input
\* str.split(","): the tokens between commas; the empty text gives one
\* empty token
Split(s) ==
    LET F[i \in 0..Len(s)] ==
            IF i = 0 THEN << <<>> >>
            ELSE IF s[i] = "," THEN Append(F[i - 1], <<>>)
            ELSE [F[i - 1] EXCEPT ![Len(F[i - 1])] = Append(@, s[i])]
    IN  F[Len(s)]

RECURSIVE LStrip(_)
LStrip(t) == IF t # <<>> /\ Head(t) = " " THEN LStrip(Tail(t)) ELSE t

RECURSIVE RStrip(_)
RStrip(t) ==
    IF t # <<>> /\ t[Len(t)] = " " THEN RStrip(SubSeq(t, 1, Len(t) - 1)) ELSE t

\* str.strip()
Strip(t) == RStrip(LStrip(t))

\* values of the ticker text box
TickerTexts ==
    { <<>>, <<"A">>, <<" ", "A">>,
      <<"A", ",", "A">>, <<"A", ",", " ", "B">> }

\* values of the risk-free-rate box; the default is 0.04
RiskFreeRates == { Rat(-1, 100), Zero, Rat(3, 100), Rat(1, 25) }

\* values of the slider
PortfolioCounts == 1..MaxPortfolios

\* ------------------------------------------------------------ data source
\* What the download can deliver for c columns: the number of price rows
\* and the per-period mean and covariance of the returns.
Market(c) ==
    IF c = 1 THEN
      { [rows |-> 0, mean |-> <<Zero>>, cov |-> <<<<Zero>>>>],
        \* two price rows: one return row
        [rows |-> 2, mean |-> <<Rat(1, 2520)>>, cov |-> <<<<Zero>>>>],
        \* a constant price
        [rows |-> 3, mean |-> <<Zero>>, cov |-> <<<<Zero>>>>],
        [rows |-> 3, mean |-> <<Rat(1, 2520)>>, cov |-> <<<<Rat(1, 6300)>>>>] }
    ELSE
      { [rows |-> 0, mean |-> <<Zero, Zero>>,
         cov |-> <<<<Zero, Zero>>, <<Zero, Zero>>>>],
        \* annualised: returns 0.10, 0.20; variances 0.04, 0.09
        [rows |-> 3, mean |-> <<Rat(1, 2520), Rat(1, 1260)>>,
         cov |-> <<<<Rat(1, 6300), Zero>>, <<Zero, Rat(1, 2800)>>>>],
        \* a constant price next to a risky one
        [rows |-> 3, mean |-> <<Zero, Rat(1, 2520)>>,
         cov |-> <<<<Zero, Zero>>, <<Zero, Rat(1, 2800)>>>>],
        \* second return series = -1/2 * first up to rounding; the estimate
        \* carries rounding error and is not positive semi-definite
        [rows |-> 3, mean |-> <<Rat(2, 25200), Rat(-1, 25200)>>,
         cov |-> <<<<Rat(16, 25200), Rat(-9, 25200)>>,
                   <<Rat(-9, 25200), Rat(4, 25200)>>>>] }

\* the columns of the downloaded table: one per distinct stripped ticker
Columns(tk) == { Strip(tk[i]) : i \in 1..Len(tk) }

\* DataFrame.mean() * 252 over the rows left by pct_change().dropna()
MeanReturns(sc) ==
    [i \in 1..Len(sc.mean) |->
        IF sc.rows - 1 < 1 THEN NaN ELSE Mul(sc.mean[i], Rat(252, 1))]

\* DataFrame.cov() * 252: needs two rows of returns
CovMatrix(sc) ==
    [i \in 1..Len(sc.cov) |-> [j \in 1..Len(sc.cov) |->
        IF sc.rows - 1 < 2 THEN NaN ELSE Mul(sc.cov[i][j], Rat(252, 1))]]

\* ------------------------------------------------------------ the sampler
\* np.random.random(n): the grid point d/(MaxDraw+1) for every draw d
Uniform(u) == [i \in 1..Len(u) |-> Rat(u[i], MaxDraw + 1)]

\* weights /= np.sum(weights)
Normalize(w) == [i \in 1..Len(w) |-> Div(w[i], Sum(w))]

\* np.dot(weights, mean_returns)
PortReturn(w, mr) == Dot(w, mr)

\* np.dot(weights.T, np.dot(cov_matrix, weights))
QuadForm(w, cm) == Dot(w, MatVec(cm, w))

\* np.sqrt(...) of the quadratic form
PortVol(w, cm) == Sqrt(QuadForm(w, cm))

\* the ratio with the risk-free rate left out
SharpeNoRiskFree(ret, rf, vol) == Div(ret, vol)

\* (ret - risk_free_rate) / vol
Sharpe(ret, rf, vol) == Div(Sub(ret, rf), vol)

\* the weights put in front of the list instead of behind it
PrependWeights(pw, w) == <<w>> \o pw

\* port_weights.append(weights)
AppendWeights(pw, w) == Append(pw, w)

SetMin(S) == CHOOSE x \in S : \A y \in S : x <= y

\* the first label that is not NaN, whatever its value
IdxFirstValid(s) ==
    LET cand == { i \in 1..Len(s) : ~IsNaN(s[i]) }
    IN  IF cand = {} THEN 0 ELSE SetMin(cand)

\* Series.idxmax(): NaN skipped, first label of the maximum; 0 stands for
\* "no label" when every entry is NaN
IdxMax(s) ==
    LET cand == { i \in 1..Len(s) :
                    /\ ~IsNaN(s[i])
                    /\ \A j \in 1..Len(s) : ~GT(s[j], s[i]) }
    IN  IF cand = {} THEN 0 ELSE SetMin(cand)

\* Series.idxmin()
IdxMin(s) ==
    LET cand == { i \in 1..Len(s) :
                    /\ ~IsNaN(s[i])
                    /\ \A j \in 1..Len(s) : ~LT(s[j], s[i]) }
    IN  IF cand = {} THEN 0 ELSE SetMin(cand)

\* ------------------------------------------------------------------ state
VARIABLES pc, ticker_text, tickers, num_portfolios, risk_free_rate,
          data_rows, mean_returns, cov_matrix,
          port_returns, port_volatility, sharpe_ratios, port_weights,
          max_sharpe, min_vol, weights_df, rendered, exception

vars == << pc, ticker_text, tickers, num_portfolios, risk_free_rate,
           data_rows, mean_returns, cov_matrix,
           port_returns, port_volatility, sharpe_ratios, port_weights,
           max_sharpe, min_vol, weights_df, rendered, exception >>

inputs == << ticker_text, tickers, num_portfolios, risk_free_rate >>

stats == << data_rows, mean_returns, cov_matrix >>

lists == << port_returns, port_volatility, sharpe_ratios >>

optimal == << max_sharpe, min_vol >>

\* a row of the results DataFrame; name is its index label
Row(i) == [name |-> i, Return |-> port_returns[i],
           Volatility |-> port_volatility[i], SharpeRatio |-> sharpe_ratios[i]]

NoRow == [name |-> 0, Return |-> NaN, Volatility |-> NaN, SharpeRatio |-> NaN]

NoException == [type |-> "none", line |-> 0]

Init ==
    /\ pc = "inputs"
    /\ ticker_text = <<>>
    /\ tickers = <<>>
    /\ num_portfolios = 0
    /\ risk_free_rate = Zero
    /\ data_rows = -1
    /\ mean_returns = <<>>
    /\ cov_matrix = <<>>
    /\ port_returns = <<>>
    /\ port_volatility = <<>>
    /\ sharpe_ratios = <<>>
    /\ port_weights = <<>>
    /\ max_sharpe = NoRow
    /\ min_vol = NoRow
    /\ weights_df = <<>>
    /\ rendered = <<>>
    /\ exception = NoException

\* an uncaught exception ends the script run; Streamlit shows the traceback
Raise(type, line) ==
    /\ pc' = "failed"
    /\ exception' = [type |-> type, line |-> line]
    /\ rendered' = Append(rendered, "exception")

\* lines 12-20: the sidebar widgets
ReadInputs ==
    /\ pc = "inputs"
    /\ \E text \in TickerTexts, n \in PortfolioCounts, rf \in RiskFreeRates :
          /\ ticker_text' = text
          /\ tickers' = Split(text)
          /\ num_portfolios' = n
          /\ risk_free_rate' = rf
    /\ pc' = "fetch"
    /\ UNCHANGED << stats, lists, port_weights, optimal, weights_df,
                    rendered, exception >>

\* lines 23-27: download and annualised statistics.  A ticker the source
\* does not know (the empty ticker is one) leaves no complete row.
FetchData ==
    /\ pc = "fetch"
    /\ \E sc \in Market(Cardinality(Columns(tickers))) :
          /\ <<>> \in Columns(tickers) => sc.rows = 0
          /\ data_rows' = sc.rows
          /\ mean_returns' = MeanReturns(sc)
          /\ cov_matrix' = CovMatrix(sc)
    /\ pc' = "loop"
    /\ UNCHANGED << inputs, lists, port_weights, optimal, weights_df,
                    rendered, exception >>

\* lines 31-40: one iteration of the sampling loop
Iterate ==
    /\ pc = "loop"
    /\ Len(sharpe_ratios) < num_portfolios
    /\ \E u \in [1..Len(tickers) -> 0..MaxDraw] :
          LET weights == Normalize(Uniform(u))
              ret     == PortReturn(weights, mean_returns)
              vol     == PortVol(weights, cov_matrix)
              sharpe  == Sharpe(ret, risk_free_rate, vol)
          IN  /\ port_weights' = AppendWeights(port_weights, weights)
              /\ IF Len(weights) # Len(mean_returns)
                 THEN \* np.dot: shapes not aligned
                      /\ Raise("ValueError", 35)
                      /\ UNCHANGED lists
                 ELSE /\ port_returns' = Append(port_returns, ret)
                      /\ port_volatility' = Append(port_volatility, vol)
                      /\ sharpe_ratios' = Append(sharpe_ratios, sharpe)
                      /\ pc' = IF Len(sharpe_ratios) + 1 = num_portfolios
                               THEN "select" ELSE "loop"
                      /\ UNCHANGED << rendered, exception >>
    /\ UNCHANGED << inputs, stats, optimal, weights_df >>

\* lines 42-50: the results table and its two optimal rows.  With every
\* entry NaN, idxmax raises ValueError or returns NaN, which .loc rejects
\* with KeyError, depending on the pandas version.
FindOptimal ==
    /\ pc = "select"
    /\ IF IdxMax(sharpe_ratios) = 0
       THEN /\ \E t \in {"ValueError", "KeyError"} : Raise(t, 49)
            /\ UNCHANGED optimal
       ELSE IF IdxMin(port_volatility) = 0
       THEN /\ \E t \in {"ValueError", "KeyError"} : Raise(t, 50)
            /\ max_sharpe' = Row(IdxMax(sharpe_ratios))
            /\ UNCHANGED min_vol
       ELSE /\ max_sharpe' = Row(IdxMax(sharpe_ratios))
            /\ min_vol' = Row(IdxMin(port_volatility))
            /\ pc' = "plot"
            /\ UNCHANGED << rendered, exception >>
    /\ UNCHANGED << inputs, stats, lists, port_weights, weights_df >>

\* lines 53-68: the scatter plot with the two markers
PlotFrontier ==
    /\ pc = "plot"
    /\ rendered' = Append(rendered, "chart")
    /\ pc' = "weights"
    /\ UNCHANGED << inputs, stats, lists, port_weights, optimal, weights_df,
                    exception >>

\* lines 71-75: the weights table of the max-Sharpe portfolio
DisplayWeights ==
    /\ pc = "weights"
    /\ weights_df' = port_weights[IdxMax(sharpe_ratios)]
    /\ rendered' = Append(rendered, "weights")
    /\ pc' = "summary"
    /\ UNCHANGED << inputs, stats, lists, port_weights, optimal, exception >>

\* lines 78-81: the three summary lines
Summary ==
    /\ pc = "summary"
    /\ rendered' = Append(rendered, "summary")
    /\ pc' = "done"
    /\ UNCHANGED << inputs, stats, lists, port_weights, optimal, weights_df,
                    exception >>

Next ==
    \/ ReadInputs
    \/ FetchData
    \/ Iterate
    \/ FindOptimal
    \/ PlotFrontier
    \/ DisplayWeights
    \/ Summary

Spec == Init /\ [][Next]_vars

\* ----------------------------------------------------------- properties
Samples == 1..Len(sharpe_ratios)

\* the two optimal rows have been selected
Selected == pc \in {"plot", "weights", "summary", "done"}

Ended == pc \in {"done", "failed"}

ExampleMean == <<Rat(1, 10), Rat(1, 5)>>

ExampleCov == <<<<Rat(1, 25), Zero>>, <<Zero, Rat(9, 100)>>>>

Half == <<Rat(1, 2), Rat(1, 2)>>

\* C1: every weight vector appended to port_weights has non-negative
\* components that sum to 1.
C1_WeightsOnSimplex ==
    \A i \in 1..Len(port_weights) :
        /\ \A c \in 1..Len(port_weights[i]) : GE(port_weights[i][c], Zero)
        /\ Sum(port_weights[i]) = One

C3_EmptyTickersRejected ==
    (ticker_text = <<>> /\ pc # "inputs") =>
        /\ port_weights = <<>>
        /\ Ended => (pc = "failed" /\ exception.type = "InvalidInput")

\* C4: a sample of volatility exactly zero has a non-finite Sharpe ratio and
\* is not the selected max-Sharpe row when some sample has a finite Sharpe
\* ratio.
C4_ZeroVolNeverWins ==
    \A i \in Samples :
        port_volatility[i] = Zero =>
            /\ ~IsFinite(sharpe_ratios[i])
            /\ (Selected /\ \E j \in Samples : IsFinite(sharpe_ratios[j])) =>
                    max_sharpe.name # i

\* C5 (samples whose quadratic form is a number): the recorded volatility is
\* >= 0, and it is 0 when the quadratic form is negative.
C5_VolatilityClamped ==
    \A i \in 1..Len(port_volatility) :
        LET q == QuadForm(port_weights[i], cov_matrix)
        IN  ~IsNaN(q) =>
                /\ GE(port_volatility[i], Zero)
                /\ LT(q, Zero) => port_volatility[i] = Zero

ExampleHolds(i) ==
    ( /\ mean_returns = ExampleMean
      /\ cov_matrix = ExampleCov
      /\ port_weights[i] = Half ) =>
        /\ port_returns[i] = Rat(3, 20)
        /\ QuadForm(port_weights[i], cov_matrix) = Rat(13, 400)

\* C8 as claimed (samples whose volatility is a number): the return is
\* dot(weights, mean_returns), the squared volatility is the quadratic form
\* and Sharpe ratio times volatility is return minus risk-free rate.
C8_ScoresOfEverySample ==
    \A i \in Samples :
        /\ port_returns[i] = Dot(port_weights[i], mean_returns)
        /\ ExampleHolds(i)
        /\ ~IsNaN(port_volatility[i]) =>
              /\ Mul(port_volatility[i], port_volatility[i])
                    = QuadForm(port_weights[i], cov_matrix)
              /\ Mul(sharpe_ratios[i], port_volatility[i])
                    = Sub(port_returns[i], risk_free_rate)

\* C8 amended: the return is dot(weights, mean_returns) for every sample;
\* for every sample whose volatility is a positive finite number the squared
\* volatility is the quadratic form and Sharpe ratio times volatility is
\* return minus risk-free rate; for the example inputs and weights [0.5, 0.5]
\* the return is 0.15 and the variance 0.0325.
C8_ScoresOfPositiveVol ==
    (pc # "failed" \/ exception.line # 35) =>
    \A i \in Samples :
        /\ port_returns[i] = Dot(port_weights[i], mean_returns)
        /\ ExampleHolds(i)
        /\ (IsFinite(port_volatility[i]) /\ GT(port_volatility[i], Zero)) =>
              /\ Mul(port_volatility[i], port_volatility[i])
                    = QuadForm(port_weights[i], cov_matrix)
              /\ Mul(sharpe_ratios[i], port_volatility[i])
                    = Sub(port_returns[i], risk_free_rate)

\* the example inputs with weights [0.5, 0.5] and risk-free rate 0.03
C8_Witness ==
    /\ mean_returns = ExampleMean
    /\ cov_matrix = ExampleCov
    /\ risk_free_rate = Rat(3, 100)
    /\ \E i \in Samples :
          /\ port_weights[i] = Half
          /\ port_returns[i] = Rat(3, 20)
          /\ GT(port_volatility[i], Zero)

\* C9: when the data source returned no rows, the sampling loop appends
\* nothing, no optimal row is selected and the run ends in a DataUnavailable
\* failure.
C9_NoRowsStopsRun ==
    data_rows = 0 =>
        /\ port_weights = <<>>
        /\ ~Selected
        /\ Ended => (pc = "failed" /\ exception.type = "DataUnavailable")

\* C10: at the end of every iteration the four lists have the same length
\* and entry i of each is computed from weight vector i; the weight vector
\* of the table is the one the max-Sharpe row was computed from.
C10_ListsAligned ==
    /\ (pc # "failed" \/ exception.line # 35) =>
          /\ Len(port_weights) = Len(port_returns)
          /\ Len(port_weights) = Len(port_volatility)
          /\ Len(port_weights) = Len(sharpe_ratios)
          /\ \A i \in Samples :
                /\ port_returns[i] = PortReturn(port_weights[i], mean_returns)
                /\ port_volatility[i] = PortVol(port_weights[i], cov_matrix)
                /\ sharpe_ratios[i] =
                      Sharpe(port_returns[i], risk_free_rate, port_volatility[i])
    /\ pc \in {"summary", "done"} =>
          /\ weights_df = port_weights[max_sharpe.name]
          /\ max_sharpe.Return = PortReturn(weights_df, mean_returns)
          /\ max_sharpe.Volatility = PortVol(weights_df, cov_matrix)
          /\ max_sharpe.SharpeRatio =
                Sharpe(max_sharpe.Return, risk_free_rate, max_sharpe.Volatility)

\* a finished run in which two different weight vectors tie for the maximum
\* Sharpe ratio
C10_Witness ==
    /\ pc = "done"
    /\ \E i, j \in Samples :
          /\ i < j
          /\ port_weights[i] # port_weights[j]
          /\ sharpe_ratios[i] = max_sharpe.SharpeRatio
          /\ sharpe_ratios[j] = max_sharpe.SharpeRatio
          /\ max_sharpe.name = i

=============================================================================
